---- MODULE Spec2Model ----
(***************************************************************************)
(* Model of the authentication core of cloud-erp-lite:                     *)
(*   backend/app/core/security.py  (hasher, token issuer, auth gate)       *)
(*   backend/app/routes/auth.py    (register, login, /me)                  *)
(* The accounts table (app/models/user.py) and the storage engine are not  *)
(* part of the sources; their behaviour (unique email, fresh primary key,  *)
(* administrative deletion) is modelled from the specification.            *)
(***************************************************************************)
EXTENDS Integers, Sequences, FiniteSets, TLC

VARIABLES
    users,                        \* rows of the accounts table
    nextId,                       \* next primary key the storage assigns
    now,                          \* the clock, in seconds
    ACCESS_TOKEN_EXPIRE_MINUTES,  \* configuration, read once at import
    bearerStatus,                 \* status HTTPBearer answers a missing credential with
    reg,                          \* in-flight register_user calls, one per worker
    wallet,                       \* the token the client holds (at most one), with the account it was issued for
    resp                          \* the last response sent

vars == <<users, nextId, now, ACCESS_TOKEN_EXPIRE_MINUTES, bearerStatus, reg, wallet, resp>>

(* ------------------------------ bounds -------------------------------- *)
NumWorkers == 2      \* concurrent register_user calls
MaxUsers   == 2      \* primary keys handed out
MaxTime    == 120    \* last instant of the clock
ClockStep  == 60     \* seconds between two observed instants

Workers   == 1..NumWorkers
Emails    == {"a@x.com", "b@x.com"}
Passwords == {"pw", "pw2"}
ExpireChoices == {-1, 1}
BearerStatusChoices == {401, 403}

SecondsPerMinute == 60
SECRET_KEY == "SECRET_KEY"
ALGORITHM  == "HS256"

(* ------------------------- strings and integers ----------------------- *)
Digits == <<"0", "1", "2", "3", "4", "5", "6", "7", "8", "9">>

IsDigit(c) == \E i \in 1..10 : Digits[i] = c

DigitVal(c) == (CHOOSE i \in 1..10 : Digits[i] = c) - 1

RECURSIVE Str(_)
\* str(n) of a non-negative integer
Str(n) == IF n < 10 THEN <<Digits[n + 1]>>
          ELSE Str(n \div 10) \o <<Digits[(n % 10) + 1]>>

RECURSIVE DigitsVal(_)
DigitsVal(s) == IF s = <<>> THEN 0
                ELSE 10 * DigitsVal(SubSeq(s, 1, Len(s) - 1)) + DigitVal(s[Len(s)])

\* int(s) over digits, signs and letters: an optional sign, then one or more
\* digits; anything else raises ValueError (ok = FALSE)
int(s) ==
    LET signed == Len(s) >= 1 /\ s[1] \in {"+", "-"}
        body   == IF signed THEN Tail(s) ELSE s
        good   == Len(body) >= 1 /\ \A i \in 1..Len(body) : IsDigit(body[i])
    IN  IF ~good THEN [ok |-> FALSE, val |-> 0]
        ELSE [ok |-> TRUE,
              val |-> IF signed /\ s[1] = "-" THEN 0 - DigitsVal(body) ELSE DigitsVal(body)]

(* --------------------------- credential hasher ------------------------ *)
hash_password(password) == <<"sha256", password>>

verify_password(password, password_hash) == hash_password(password) = password_hash

(* ------------------------------- tokens ------------------------------- *)
StrVal(s) == [t |-> "str", v |-> s]
NumVal(s) == [t |-> "num", v |-> s]

Jws(hasSub, sub, hasExp, exp, key, alg) ==
    [form |-> "jws", hasSub |-> hasSub, sub |-> sub, hasExp |-> hasExp, exp |-> exp,
     key |-> key, alg |-> alg]

Garbage == [form |-> "garbage", hasSub |-> FALSE, sub |-> StrVal(<<>>), hasExp |-> FALSE,
            exp |-> 0, key |-> "", alg |-> ""]

\* mutant: the lifetime taken as seconds, timedelta(seconds=...)
create_access_token_seconds(data, t) ==
    Jws(TRUE, data.sub, TRUE, t + ACCESS_TOKEN_EXPIRE_MINUTES, SECRET_KEY, ALGORITHM)

\* create_access_token: the data plus "exp" = utcnow() + timedelta(minutes=...), signed
create_access_token(data, t) ==
    Jws(TRUE, data.sub, TRUE, t + ACCESS_TOKEN_EXPIRE_MINUTES * SecondsPerMinute,
        SECRET_KEY, ALGORITHM)

\* mutant: decoding with the expiry check switched off (verify_exp: False)
jwt_decode_noexp(token, t) ==
    LET fail(e) == [ok |-> FALSE, err |-> e, hasSub |-> FALSE, sub |-> <<>>]
    IN  IF token.form # "jws" THEN fail("JWTError")
        ELSE IF token.alg # ALGORITHM THEN fail("JWTError")
        ELSE IF token.key # SECRET_KEY THEN fail("JWTError")
        ELSE IF token.hasSub /\ token.sub.t # "str" THEN fail("JWTClaimsError")
        ELSE [ok |-> TRUE, err |-> "", hasSub |-> token.hasSub,
              sub |-> IF token.hasSub THEN token.sub.v ELSE <<>>]

\* jwt.decode(token, SECRET_KEY, algorithms=[ALGORITHM]) at instant t
jwt_decode(token, t) ==
    LET fail(e) == [ok |-> FALSE, err |-> e, hasSub |-> FALSE, sub |-> <<>>]
    IN  IF token.form # "jws" THEN fail("JWTError")
        ELSE IF token.alg # ALGORITHM THEN fail("JWTError")
        ELSE IF token.key # SECRET_KEY THEN fail("JWTError")
        ELSE IF token.hasExp /\ token.exp < t THEN fail("ExpiredSignatureError")
        ELSE IF token.hasSub /\ token.sub.t # "str" THEN fail("JWTClaimsError")
        ELSE [ok |-> TRUE, err |-> "", hasSub |-> token.hasSub,
              sub |-> IF token.hasSub THEN token.sub.v ELSE <<>>]

\* tokens a client can make up without logging in
ForgedTokens ==
    { Garbage,
      Jws(TRUE, StrVal(<<"1">>), FALSE, 0, "guessed", ALGORITHM),
      Jws(TRUE, StrVal(<<"1">>), FALSE, 0, SECRET_KEY, "none"),
      Jws(FALSE, StrVal(<<>>), FALSE, 0, SECRET_KEY, ALGORITHM),
      Jws(TRUE, NumVal(<<"1">>), FALSE, 0, SECRET_KEY, ALGORITHM),
      Jws(TRUE, StrVal(<<"a">>), FALSE, 0, SECRET_KEY, ALGORITHM),
      Jws(TRUE, StrVal(<<"+", "1">>), FALSE, 0, SECRET_KEY, ALGORITHM),
      Jws(TRUE, StrVal(<<"9">>), FALSE, 0, SECRET_KEY, ALGORITHM),
      Jws(TRUE, StrVal(<<"1">>), TRUE, 0, SECRET_KEY, ALGORITHM),
      Jws(TRUE, StrVal(<<"1">>), TRUE, 0, "guessed", ALGORITHM) }

(* ------------------------------ storage ------------------------------- *)
findByEmail(db, email) == {u \in db : u.email = email}

\* mutant: the filter on the id dropped from the query
findById_first(db, id) == db

findById(db, id) == {u \in db : u.id = id}

\* mutant: the email column declared without unique=True
UniqueEmailOK_off(db, email) == TRUE

\* the unique constraint on the email column
UniqueEmailOK(db, email) == findByEmail(db, email) = {}

(* ------------------------------ responses ----------------------------- *)
Error(status, detail) == [status |-> status, body |-> [detail |-> detail]]

NoResp == [op |-> "none", req |-> <<>>, status |-> 0, body |-> [detail |-> ""], steps |-> <<>>]

IdleReg == [pc |-> "idle", email |-> "", password |-> ""]

(* ------------------------------ auth gate ----------------------------- *)
\* mutant: the "if not user" check left out, the handler then reads None.id
get_current_user_nocheck(hdr, db, t) ==
    IF hdr = <<>>
    THEN [ok |-> FALSE, status |-> bearerStatus, detail |-> "Not authenticated",
          user |-> {}, steps |-> <<"HTTPBearer">>]
    ELSE
      LET d == jwt_decode(hdr[1], t)
          decoded == <<"HTTPBearer", "jwt.decode">>
      IN  IF ~d.ok \/ ~d.hasSub
          THEN [ok |-> FALSE, status |-> 401, detail |-> "Invalid token",
                user |-> {}, steps |-> decoded]
          ELSE
            LET n == int(d.sub)
            IN  IF ~n.ok
                THEN [ok |-> FALSE, status |-> 500, detail |-> "Internal Server Error",
                      user |-> {}, steps |-> decoded]
                ELSE
                  LET found == findById(db, n.val)
                  IN  IF found = {}
                      THEN [ok |-> FALSE, status |-> 500, detail |-> "Internal Server Error",
                            user |-> {}, steps |-> decoded \o <<"db.query", "get_me">>]
                      ELSE [ok |-> TRUE, status |-> 200, detail |-> "",
                            user |-> found, steps |-> decoded \o <<"db.query">>]

\* get_current_user with the Authorization header hdr (<<>>: none), over the rows db
get_current_user(hdr, db, t) ==
    IF hdr = <<>>
    THEN [ok |-> FALSE, status |-> bearerStatus, detail |-> "Not authenticated",
          user |-> {}, steps |-> <<"HTTPBearer">>]
    ELSE
      LET d == jwt_decode(hdr[1], t)
          decoded == <<"HTTPBearer", "jwt.decode">>
      IN  IF ~d.ok \/ ~d.hasSub
          THEN [ok |-> FALSE, status |-> 401, detail |-> "Invalid token",
                user |-> {}, steps |-> decoded]
          ELSE
            LET n == int(d.sub)
            IN  IF ~n.ok
                THEN [ok |-> FALSE, status |-> 500, detail |-> "Internal Server Error",
                      user |-> {}, steps |-> decoded]
                ELSE
                  LET found == findById(db, n.val)
                  IN  IF found = {}
                      THEN [ok |-> FALSE, status |-> 404, detail |-> "User not found",
                            user |-> {}, steps |-> decoded \o <<"db.query">>]
                      ELSE [ok |-> TRUE, status |-> 200, detail |-> "",
                            user |-> found, steps |-> decoded \o <<"db.query">>]

\* mutant: the dependency made optional, the handler body runs on every request
get_me_response_eager(hdr, db, t) ==
    LET g == get_current_user(hdr, db, t)
    IN  IF g.ok
        THEN LET current_user == CHOOSE u \in g.user : TRUE
             IN  [status |-> 200,
                  body |-> [id |-> current_user.id, email |-> current_user.email],
                  steps |-> g.steps \o <<"get_me">>]
        ELSE [status |-> g.status, body |-> [detail |-> g.detail],
              steps |-> g.steps \o <<"get_me">>]

\* GET /auth/me
get_me_response(hdr, db, t) ==
    LET g == get_current_user(hdr, db, t)
    IN  IF g.ok
        THEN LET current_user == CHOOSE u \in g.user : TRUE
             IN  [status |-> 200,
                  body |-> [id |-> current_user.id, email |-> current_user.email],
                  steps |-> g.steps \o <<"get_me">>]
        ELSE [status |-> g.status, body |-> [detail |-> g.detail], steps |-> g.steps]

(* ------------------------------- login -------------------------------- *)
\* mutant: an unknown email answered apart from a wrong password
login_response_leaky(email, password, db, t) ==
    LET found == findByEmail(db, email)
    IN  IF found = {} THEN Error(404, "User not found")
        ELSE IF ~verify_password(password, (CHOOSE u \in found : TRUE).password_hash)
        THEN Error(400, "Invalid credentials")
        ELSE LET user == CHOOSE u \in found : TRUE
             IN  [status |-> 200,
                  body |-> [access_token |-> create_access_token([sub |-> StrVal(Str(user.id))], t),
                            token_type |-> "bearer"]]

\* POST /auth/login
login_response(email, password, db, t) ==
    LET found == findByEmail(db, email)
    IN  IF found = {} \/ ~verify_password(password, (CHOOSE u \in found : TRUE).password_hash)
        THEN Error(400, "Invalid credentials")
        ELSE LET user == CHOOSE u \in found : TRUE
             IN  [status |-> 200,
                  body |-> [access_token |-> create_access_token([sub |-> StrVal(Str(user.id))], t),
                            token_type |-> "bearer"]]

(* ------------------------------ actions ------------------------------- *)
Init ==
    /\ users = {}
    /\ nextId = 1
    /\ now = 0
    /\ ACCESS_TOKEN_EXPIRE_MINUTES \in ExpireChoices
    /\ bearerStatus \in BearerStatusChoices
    /\ reg = [w \in Workers |-> IdleReg]
    /\ wallet = {}
    /\ resp = NoResp

\* mutant: the duplicate check left out
RegisterLookup_nocheck(w, email, password) ==
    /\ reg[w].pc = "idle"
    /\ nextId <= MaxUsers
    /\ reg' = [reg EXCEPT ![w] = [pc |-> "commit", email |-> email, password |-> password]]
    /\ resp' = resp
    /\ UNCHANGED <<users, nextId, now, ACCESS_TOKEN_EXPIRE_MINUTES, bearerStatus, wallet>>

\* register_user, first half: the lookup by email and the duplicate check
RegisterLookup(w, email, password) ==
    /\ reg[w].pc = "idle"
    /\ nextId <= MaxUsers
    /\ IF findByEmail(users, email) # {}
       THEN /\ resp' = [op |-> "register", req |-> <<>>,
                        status |-> 400, body |-> [detail |-> "Email already registered"],
                        steps |-> <<"db.query">>]
            /\ reg' = reg
       ELSE /\ reg' = [reg EXCEPT ![w] = [pc |-> "commit", email |-> email, password |-> password]]
            /\ resp' = resp
    /\ UNCHANGED <<users, nextId, now, ACCESS_TOKEN_EXPIRE_MINUTES, bearerStatus, wallet>>

\* register_user, second half: db.add, db.commit, db.refresh, the response
RegisterCommit(w) ==
    /\ reg[w].pc = "commit"
    /\ LET r == reg[w]
           new_user == [id |-> nextId, email |-> r.email,
                        password_hash |-> hash_password(r.password)]
       IN  IF UniqueEmailOK(users, r.email)
           THEN /\ users' = users \cup {new_user}
                /\ nextId' = nextId + 1
                /\ resp' = [op |-> "register", req |-> <<>>, status |-> 200,
                            body |-> [message |-> "User registered", user_id |-> new_user.id],
                            steps |-> <<"db.query", "db.commit">>]
           ELSE /\ UNCHANGED <<users, nextId>>
                /\ resp' = [op |-> "register", req |-> <<>>, status |-> 500, body |-> [detail |-> "Internal Server Error"],
                            steps |-> <<"db.query", "db.commit">>]
    /\ reg' = [reg EXCEPT ![w] = IdleReg]
    /\ UNCHANGED <<now, ACCESS_TOKEN_EXPIRE_MINUTES, bearerStatus, wallet>>

\* mutant: a successful login stores the digest again, under a new scheme
login_user_rehash(email, password) ==
    /\ LET r == login_response(email, password, users, now)
       IN  /\ resp' = [op |-> "login", req |-> <<>>,
                       status |-> r.status, body |-> r.body, steps |-> <<"db.query">>]
           /\ wallet' = wallet
           /\ IF r.status = 200
              THEN users' = {IF u.email = email
                             THEN [u EXCEPT !.password_hash = <<"sha512", password>>]
                             ELSE u : u \in users}
              ELSE users' = users
    /\ UNCHANGED <<nextId, now, ACCESS_TOKEN_EXPIRE_MINUTES, bearerStatus, reg>>

\* login_user; the client keeps the new token or the one it already holds
login_user(email, password) ==
    /\ LET r == login_response(email, password, users, now)
       IN  /\ resp' = [op |-> "login", req |-> <<>>,
                       status |-> r.status, body |-> r.body, steps |-> <<"db.query">>]
           /\ IF r.status = 200
              THEN \/ wallet' = {[tok |-> r.body.access_token,
                                  acct |-> CHOOSE u \in findByEmail(users, email) : TRUE]}
                   \/ wallet' = wallet
              ELSE wallet' = wallet
    /\ UNCHANGED <<users, nextId, now, ACCESS_TOKEN_EXPIRE_MINUTES, bearerStatus, reg>>

\* get_me behind Depends(get_current_user)
get_me(hdr) ==
    /\ LET r == get_me_response(hdr, users, now)
       IN  resp' = [op |-> "me", req |-> hdr, status |-> r.status, body |-> r.body,
                    steps |-> r.steps]
    /\ UNCHANGED <<users, nextId, now, ACCESS_TOKEN_EXPIRE_MINUTES, bearerStatus, reg, wallet>>

\* an administrator removes an account (outside the handlers)
AdminDelete(u) ==
    /\ u \in users
    /\ users' = users \ {u}
    /\ resp' = [op |-> "admin_delete", req |-> <<>>, status |-> 0, body |-> [detail |-> ""], steps |-> <<>>]
    /\ UNCHANGED <<nextId, now, ACCESS_TOKEN_EXPIRE_MINUTES, bearerStatus, reg, wallet>>

\* the clock advances
Tick ==
    /\ now + ClockStep <= MaxTime
    /\ now' = now + ClockStep
    /\ UNCHANGED <<users, nextId, ACCESS_TOKEN_EXPIRE_MINUTES, bearerStatus, reg, wallet, resp>>

Headers == {<<>>} \cup {<<t>> : t \in ForgedTokens \cup {w.tok : w \in wallet}}

Next ==
    \/ \E w \in Workers, e \in Emails, p \in Passwords : RegisterLookup(w, e, p)
    \/ \E w \in Workers : RegisterCommit(w)
    \/ \E e \in Emails, p \in Passwords : login_user(e, p)
    \/ \E h \in Headers : get_me(h)
    \/ \E u \in users : AdminDelete(u)
    \/ Tick

Spec == Init /\ [][Next]_vars

\* registration alone, any number of calls in flight
NextRegister ==
    \/ \E w \in Workers, e \in Emails, p \in Passwords : RegisterLookup(w, e, p)
    \/ \E w \in Workers : RegisterCommit(w)
    \/ \E u \in users : AdminDelete(u)

SpecRegister == Init /\ [][NextRegister]_vars

\* every endpoint, one register_user call in flight at a time
NextAuth ==
    \/ \E w \in Workers, e \in Emails, p \in Passwords :
          (\A v \in Workers : reg[v].pc = "idle") /\ RegisterLookup(w, e, p)
    \/ \E w \in Workers : RegisterCommit(w)
    \/ \E e \in Emails, p \in Passwords : login_user(e, p)
    \/ \E h \in Headers : get_me(h)
    \/ \E u \in users : AdminDelete(u)
    \/ Tick

SpecAuth == Init /\ [][NextAuth]_vars

(* ============================== claims ================================ *)
HeldTokens == {w.tok : w \in wallet}

Presentable == ForgedTokens \cup HeldTokens

WellSigned(tok) == tok.form = "jws" /\ tok.key = SECRET_KEY /\ tok.alg = ALGORITHM

\* s is str(n) for a non-negative integer n
IsIdString(s) ==
    /\ Len(s) >= 1
    /\ \A i \in 1..Len(s) : IsDigit(s[i])
    /\ (Len(s) = 1 \/ s[1] # "0")

EmailUnique(db) == \A u, v \in db : u.email = v.email => u = v

(* C1: register_user called for an email that already has a row answers 400
   "Email already registered" and inserts nothing: the row with that email
   is afterwards the one row the first registration created. *)
C1_DuplicateRegisterRejected ==
    [][\A w \in Workers, e \in Emails, p \in Passwords :
         (RegisterLookup(w, e, p) /\ findByEmail(users, e) # {}) =>
             /\ resp'.op = "register"
             /\ resp'.status = 400
             /\ resp'.body = [detail |-> "Email already registered"]
             /\ users' = users
             /\ nextId' = nextId
             /\ reg'[w].pc = "idle"
             /\ Cardinality(findByEmail(users', e)) = 1]_vars

C1_Witness ==
    /\ resp.op = "register"
    /\ resp.status = 400
    /\ \E e \in Emails : Cardinality(findByEmail(users, e)) = 1

(* C2: under every interleaving of concurrent register_user calls for one
   email, the insert of a call that finds the email taken at commit is
   rejected, and no two rows ever share an email. *)
C2_ConcurrentRegisterUnique ==
    [][/\ EmailUnique(users')
       /\ \A w \in Workers :
            (RegisterCommit(w) /\ findByEmail(users, reg[w].email) # {}) =>
                /\ users' = users
                /\ resp'.op = "register"
                /\ resp'.status # 200]_vars

\* two calls passed the lookup for one email; one inserted, the other was rejected
C2_Witness ==
    /\ resp.op = "register"
    /\ resp.status = 500
    /\ users # {}
    /\ EmailUnique(users)

LoginFails(e, p) ==
    \/ findByEmail(users, e) = {}
    \/ \E u \in findByEmail(users, e) : ~verify_password(p, u.password_hash)

(* C3: login fails the same way, 400 "Invalid credentials" and no token,
   whether the email is unknown or the password is wrong; the two failures
   are the same response. *)
C3_LoginFailuresIndistinguishable ==
    /\ \A e \in Emails, p \in Passwords :
         LoginFails(e, p) =>
             login_response(e, p, users, now) = Error(400, "Invalid credentials")
    /\ \A e1 \in Emails, e2 \in Emails, p1 \in Passwords, p2 \in Passwords :
         (LoginFails(e1, p1) /\ LoginFails(e2, p2)) =>
             login_response(e1, p1, users, now) = login_response(e2, p2, users, now)
    /\ (resp.op = "login" /\ resp.status # 200) =>
         (resp.status = 400 /\ resp.body = [detail |-> "Invalid credentials"])

\* a failed login answered while one email is registered and the other is not
C3_Witness ==
    /\ resp.op = "login"
    /\ resp.status = 400
    /\ \E e \in Emails : findByEmail(users, e) = {}
    /\ \E e \in Emails, p \in Passwords :
         findByEmail(users, e) # {} /\ LoginFails(e, p)

Subjects == {<<"1">>, <<"2">>, <<"a">>, <<>>}

(* C5: a token issued for a subject at some instant and decoded at any
   instant before the issue time plus the configured lifetime yields that
   subject, with no error. *)
C5_TokenRoundTrip ==
    \A s \in Subjects, t0 \in 0..now :
        now < t0 + ACCESS_TOKEN_EXPIRE_MINUTES * SecondsPerMinute =>
            LET d == jwt_decode(create_access_token([sub |-> StrVal(s)], t0), now)
            IN  d.ok /\ d.hasSub /\ d.sub = s

\* a token from login decoded and resolved before it expired
C5_Witness ==
    /\ resp.op = "me"
    /\ resp.status = 200
    /\ resp.req # <<>>
    /\ resp.req[1] \in HeldTokens
    /\ now > 0
    /\ now <= resp.req[1].exp

(* C6: the token login returned for account A carries str(A.id) as its
   subject, and /me with that token, while A exists and the token has not
   expired, answers A's id and A's email and never another account's. *)
C6_LoginThenWhoAmI ==
    \A w \in wallet :
        /\ w.tok.sub = StrVal(Str(w.acct.id))
        /\ (w.acct \in users /\ now <= w.tok.exp) =>
               LET r == get_me_response(<<w.tok>>, users, now)
               IN  /\ r.status = 200
                   /\ r.body = [id |-> w.acct.id, email |-> w.acct.email]
        /\ LET r == get_me_response(<<w.tok>>, users, now)
           IN  r.status = 200 => r.body = [id |-> w.acct.id, email |-> w.acct.email]

\* /me answered 200 for the held token while a second account exists
C6_Witness ==
    /\ resp.op = "me"
    /\ resp.status = 200
    /\ resp.req # <<>>
    /\ resp.req[1] \in HeldTokens
    /\ Cardinality(users) = 2
    /\ \E w \in wallet : resp.body = [id |-> w.acct.id, email |-> w.acct.email]

Malformed(tok) ==
    \/ ~WellSigned(tok)
    \/ ~tok.hasSub
    \/ tok.sub.t # "str"
    \/ ~IsIdString(tok.sub.v)

(* C7: a presented token whose signature does not verify, whose payload is
   malformed (a subject that is not str(n) of an integer id included) or
   whose subject is absent is answered 401 "Invalid token", never with an
   account and never with a server error. *)
C7_MalformedTokenIsInvalidToken ==
    (resp.op = "me" /\ resp.req # <<>> /\ Malformed(resp.req[1])) =>
        (resp.status = 401 /\ resp.body = [detail |-> "Invalid token"])

(* C8: once the account a token was issued for is deleted, the unexpired
   token is answered 404 "User not found", with no account, and is never
   resolved to another account. *)
C8_DeletedAccountNotFound ==
    \A w \in wallet :
        (w.acct \notin users /\ now <= w.tok.exp) =>
            /\ get_current_user(<<w.tok>>, users, now).user = {}
            /\ get_me_response(<<w.tok>>, users, now) =
                   [status |-> 404, body |-> [detail |-> "User not found"],
                    steps |-> <<"HTTPBearer", "jwt.decode", "db.query">>]

\* the held token presented after its account was deleted, other accounts existing
C8_Witness ==
    /\ resp.op = "me"
    /\ resp.status = 404
    /\ resp.req # <<>>
    /\ resp.req[1] \in HeldTokens
    /\ users # {}
    /\ \E w \in wallet : w.acct \notin users /\ now <= w.tok.exp

C10_Frame ==
    [][/\ resp'.op # "admin_delete" => users \subseteq users'
       /\ (resp'.op \in {"login", "me"} \/ (resp'.op = "register" /\ resp'.status # 200))
              => users' = users
       /\ (resp'.op = "register" /\ resp'.status = 200) =>
              \/ users' = users
              \/ \E a \in users' \ users :
                    /\ users' = users \cup {a}
                    /\ a.id = resp'.body.user_id
                    /\ \E w \in Workers :
                          /\ reg[w].pc = "commit"
                          /\ a.email = reg[w].email
                          /\ a.password_hash = hash_password(reg[w].password)
       /\ \A a \in users, b \in users' : b.id = a.id => b = a]_vars

\* a duplicate register was answered 400 after a login had succeeded
C10_Witness ==
    /\ resp.op = "register"
    /\ resp.status = 400
    /\ users # {}
    /\ wallet # {}

====
